---------------------------- MODULE Spec2Model ----------------------------
(***************************************************************************)
(* Model of the B-tree node codec of src/BTree.go.                         *)
(*                                                                         *)
(* A BNode wraps a Go byte slice.  The slice is modelled by its backing    *)
(* array from the slice start up to its capacity (node.data, a sequence of *)
(* bytes, Len = cap) and its length (node.len <= cap).  uint16 arithmetic  *)
(* keeps its width (modulo 2^16); a uint64 is kept as four 16-bit limbs,   *)
(* least significant first, because the model's integers are 32 bits wide. *)
(* A Go panic (failed assert, index or slice bound) is a fault: the        *)
(* operation returns no value and the fault kind is recorded.              *)
(***************************************************************************)
EXTENDS Integers, Sequences, FiniteSets, TLC

VARIABLES node, recs, op, arg, ret

vars == <<node, recs, op, arg, ret>>

---------------------------------------------------------------------------
(* Program constants *)
BNODE_NODE == 1
BNODE_LEAF == 2
HEADER == 4
BTREE_PAGE_SIZE == 4096
\* number of values of a uint16
U16Mod == 65536

(* Bounds of the model *)
\* records in a node built by Init
MaxKeys == 2
\* bytes of capacity past the slice length (cap - len) in Init
MaxSlack == 1

---------------------------------------------------------------------------
(* Go values *)

\* uint16 arithmetic: the result of an expression typed uint16
U16(x) == x % U16Mod

NoFault == "none"
AssertFault == "assert"
BoundsFault == "bounds"

\* a return: fault kind, and the value as a number, a uint64 or a byte string
Ret(f, n, p, b) == [f |-> f, n |-> n, p |-> p, b |-> b]
OkN(n) == Ret(NoFault, n, <<>>, <<>>)
OkP(p) == Ret(NoFault, 0, p, <<>>)
OkB(b) == Ret(NoFault, 0, <<>>, b)
Flt(k) == Ret(k, 0, <<>>, <<>>)

\* a slice of the node's backing array: first index, length, capacity
BadSlice == [lo |-> 0, len |-> 0, cap |-> 0, ok |-> FALSE]
Whole(nd) == [lo |-> 0, len |-> nd.len, cap |-> Len(nd.data), ok |-> TRUE]

\* s[a:]  (0 <= a <= len(s), else a slice-bounds panic)
SliceFrom(s, a) ==
    IF s.ok /\ a <= s.len
    THEN [lo |-> s.lo + a, len |-> s.len - a, cap |-> s.cap - a, ok |-> TRUE]
    ELSE BadSlice

\* s[:b]  (0 <= b <= cap(s))
SliceTo(s, b) ==
    IF s.ok /\ b <= s.cap
    THEN [lo |-> s.lo, len |-> b, cap |-> s.cap, ok |-> TRUE]
    ELSE BadSlice

\* s[a:b]  (0 <= a <= b <= cap(s))
SliceRange(s, a, b) ==
    IF s.ok /\ a <= b /\ b <= s.cap
    THEN [lo |-> s.lo + a, len |-> b - a, cap |-> s.cap - a, ok |-> TRUE]
    ELSE BadSlice

\* the bytes a slice holds
Bytes(d, s) == SubSeq(d, s.lo + 1, s.lo + s.len)

\* binary.LittleEndian.Uint16(b), for len(b) >= 2
Uint16(d, s) == d[s.lo + 1] + 256 * d[s.lo + 2]

\* binary.LittleEndian.PutUint16(b, v), for len(b) >= 2
PutUint16(d, s, v) ==
    [d EXCEPT ![s.lo + 1] = v % 256, ![s.lo + 2] = (v \div 256) % 256]

\* binary.LittleEndian.Uint64(b), for len(b) >= 8: four 16-bit limbs
Uint64(d, s) ==
    [k \in 1..4 |-> d[s.lo + 2 * k - 1] + 256 * d[s.lo + 2 * k]]

\* binary.LittleEndian.PutUint64(b, v), for len(b) >= 8
PutUint64(d, s, v) ==
    [j \in 1..Len(d) |->
        IF j > s.lo /\ j <= s.lo + 8
        THEN LET k == j - s.lo - 1   \* byte k of the value, 0..7
                 limb == v[(k \div 2) + 1]
             IN  IF k % 2 = 0 THEN limb % 256 ELSE (limb \div 256) % 256
        ELSE d[j]]

\* assert(cond): passes iff cond holds, else the caller faults
assert(cond) == cond

---------------------------------------------------------------------------
(* The node codec *)

btype(nd) ==
    LET s == Whole(nd)
    IN  IF s.len >= 2 THEN OkN(Uint16(nd.data, s)) ELSE Flt(BoundsFault)

nkeys(nd) ==
    LET s == SliceRange(Whole(nd), 2, 4)
    IN  IF s.ok THEN OkN(Uint16(nd.data, s)) ELSE Flt(BoundsFault)

\* setHeader with the two fields written to each other's place
setHeaderSwapped(nd, t, n) ==
    LET s1 == SliceRange(Whole(nd), 0, 2)
        d1 == PutUint16(nd.data, s1, n)
        s2 == SliceRange(Whole(nd), 2, 4)
    IN  IF ~s1.ok THEN [f |-> BoundsFault, data |-> nd.data]
        ELSE IF ~s2.ok THEN [f |-> BoundsFault, data |-> d1]
        ELSE [f |-> NoFault, data |-> PutUint16(d1, s2, t)]

\* the node after setHeader and the fault it ended with; the type is written
\* before the slice for the key count is taken
setHeader(nd, t, n) ==
    LET s1 == SliceRange(Whole(nd), 0, 2)
        d1 == PutUint16(nd.data, s1, t)
        s2 == SliceRange(Whole(nd), 2, 4)
    IN  IF ~s1.ok THEN [f |-> BoundsFault, data |-> nd.data]
        ELSE IF ~s2.ok THEN [f |-> BoundsFault, data |-> d1]
        ELSE [f |-> NoFault, data |-> PutUint16(d1, s2, n)]

\* the position kept in a single byte
ptrPosByte(idx) == (HEADER + 8 * idx) % 256

\* pos := HEADER + 8*idx
ptrPos(idx) == U16(HEADER + U16(8 * idx))

getPtr(nd, idx) ==
    LET nk == nkeys(nd)
    IN  IF nk.f # NoFault THEN Flt(nk.f)
        ELSE IF ~assert(idx < nk.n) THEN Flt(AssertFault)
        ELSE LET s == SliceFrom(Whole(nd), ptrPos(idx))
             IN  IF s.ok /\ s.len >= 8 THEN OkP(Uint64(nd.data, s))
                 ELSE Flt(BoundsFault)

\* setPtr asserting idx <= nkeys()
setPtrLoose(nd, idx, val) ==
    LET nk == nkeys(nd)
    IN  IF nk.f # NoFault THEN [f |-> nk.f, data |-> nd.data]
        ELSE IF ~assert(idx <= nk.n) THEN [f |-> AssertFault, data |-> nd.data]
        ELSE LET s == SliceFrom(Whole(nd), ptrPos(idx))
             IN  IF s.ok /\ s.len >= 8
                 THEN [f |-> NoFault, data |-> PutUint64(nd.data, s, val)]
                 ELSE [f |-> BoundsFault, data |-> nd.data]

\* setPtr with the header size left out of the position
setPtrNoHeader(nd, idx, val) ==
    LET nk == nkeys(nd)
    IN  IF nk.f # NoFault THEN [f |-> nk.f, data |-> nd.data]
        ELSE IF ~assert(idx < nk.n) THEN [f |-> AssertFault, data |-> nd.data]
        ELSE LET s == SliceFrom(Whole(nd), U16(8 * idx))
             IN  IF s.ok /\ s.len >= 8
                 THEN [f |-> NoFault, data |-> PutUint64(nd.data, s, val)]
                 ELSE [f |-> BoundsFault, data |-> nd.data]

setPtr(nd, idx, val) ==
    LET nk == nkeys(nd)
    IN  IF nk.f # NoFault THEN [f |-> nk.f, data |-> nd.data]
        ELSE IF ~assert(idx < nk.n) THEN [f |-> AssertFault, data |-> nd.data]
        ELSE LET s == SliceFrom(Whole(nd), ptrPos(idx))
             IN  IF s.ok /\ s.len >= 8
                 THEN [f |-> NoFault, data |-> PutUint64(nd.data, s, val)]
                 ELSE [f |-> BoundsFault, data |-> nd.data]

\* offsetPos taking idx as 0-based
offsetPosZeroBased(nd, idx) ==
    IF ~(1 <= idx) THEN Flt(AssertFault)
    ELSE LET nk == nkeys(nd)
         IN  IF nk.f # NoFault THEN Flt(nk.f)
             ELSE IF ~assert(idx <= nk.n) THEN Flt(AssertFault)
             ELSE OkN(U16(HEADER + U16(8 * nk.n) + U16(2 * idx)))

\* 1 <= idx is tested first: nkeys() is not read when it fails
offsetPos(nd, idx) ==
    IF ~(1 <= idx) THEN Flt(AssertFault)
    ELSE LET nk == nkeys(nd)
         IN  IF nk.f # NoFault THEN Flt(nk.f)
             ELSE IF ~assert(idx <= nk.n) THEN Flt(AssertFault)
             ELSE OkN(U16(HEADER + U16(8 * nk.n) + U16(2 * (idx - 1))))

getOffset(nd, idx) ==
    IF idx = 0 THEN OkN(0)
    ELSE LET p == offsetPos(nd, idx)
         IN  IF p.f # NoFault THEN Flt(p.f)
             ELSE LET s == SliceFrom(Whole(nd), p.n)
                  IN  IF s.ok /\ s.len >= 2 THEN OkN(Uint16(nd.data, s))
                      ELSE Flt(BoundsFault)

\* kvPos with the size of the offset array left out
kvPosNoOffsets(nd, idx) ==
    LET nk == nkeys(nd)
    IN  IF nk.f # NoFault THEN Flt(nk.f)
        ELSE IF ~assert(idx <= nk.n) THEN Flt(AssertFault)
        ELSE LET off == getOffset(nd, idx)
             IN  IF off.f # NoFault THEN Flt(off.f)
                 ELSE OkN(U16(HEADER + U16(8 * nk.n) + off.n))

kvPos(nd, idx) ==
    LET nk == nkeys(nd)
    IN  IF nk.f # NoFault THEN Flt(nk.f)
        ELSE IF ~assert(idx <= nk.n) THEN Flt(AssertFault)
        ELSE LET off == getOffset(nd, idx)
             IN  IF off.f # NoFault THEN Flt(off.f)
                 ELSE OkN(U16(HEADER + U16(8 * nk.n) + U16(2 * nk.n) + off.n))

getKey(nd, idx) ==
    LET nk == nkeys(nd)
    IN  IF nk.f # NoFault THEN Flt(nk.f)
        ELSE IF ~assert(idx < nk.n) THEN Flt(AssertFault)
        ELSE LET pos == kvPos(nd, idx)
             IN  IF pos.f # NoFault THEN Flt(pos.f)
                 ELSE LET sk == SliceFrom(Whole(nd), pos.n)
                      IN  IF ~(sk.ok /\ sk.len >= 2) THEN Flt(BoundsFault)
                          ELSE LET klen == Uint16(nd.data, sk)
                                   s == SliceTo(SliceFrom(Whole(nd), U16(pos.n + 4)), klen)
                               IN  IF s.ok THEN OkB(Bytes(nd.data, s))
                                   ELSE Flt(BoundsFault)

\* getVal starting at the key instead of past it
getValNoKlen(nd, idx) ==
    LET nk == nkeys(nd)
    IN  IF nk.f # NoFault THEN Flt(nk.f)
        ELSE IF ~assert(idx < nk.n) THEN Flt(AssertFault)
        ELSE LET pos == kvPos(nd, idx)
             IN  IF pos.f # NoFault THEN Flt(pos.f)
                 ELSE LET sk == SliceFrom(Whole(nd), pos.n)
                          sv == SliceFrom(Whole(nd), U16(pos.n + 2))
                      IN  IF ~(sk.ok /\ sk.len >= 2) THEN Flt(BoundsFault)
                          ELSE IF ~(sv.ok /\ sv.len >= 2) THEN Flt(BoundsFault)
                          ELSE LET vlen == Uint16(nd.data, sv)
                                   s == SliceTo(SliceFrom(Whole(nd),
                                                  U16(pos.n + 4)), vlen)
                               IN  IF s.ok THEN OkB(Bytes(nd.data, s))
                                   ELSE Flt(BoundsFault)

getVal(nd, idx) ==
    LET nk == nkeys(nd)
    IN  IF nk.f # NoFault THEN Flt(nk.f)
        ELSE IF ~assert(idx < nk.n) THEN Flt(AssertFault)
        ELSE LET pos == kvPos(nd, idx)
             IN  IF pos.f # NoFault THEN Flt(pos.f)
                 ELSE LET sk == SliceFrom(Whole(nd), pos.n)
                          sv == SliceFrom(Whole(nd), U16(pos.n + 2))
                      IN  IF ~(sk.ok /\ sk.len >= 2) THEN Flt(BoundsFault)
                          ELSE IF ~(sv.ok /\ sv.len >= 2) THEN Flt(BoundsFault)
                          ELSE LET klen == Uint16(nd.data, sk)
                                   vlen == Uint16(nd.data, sv)
                                   s == SliceTo(SliceFrom(Whole(nd),
                                                  U16(pos.n + 4 + klen)), vlen)
                               IN  IF s.ok THEN OkB(Bytes(nd.data, s))
                                   ELSE Flt(BoundsFault)

\* nbytes answering the start of the records
nbytesStart(nd) ==
    LET nk == nkeys(nd)
    IN  IF nk.f # NoFault THEN Flt(nk.f) ELSE kvPos(nd, 0)

nbytes(nd) ==
    LET nk == nkeys(nd)
    IN  IF nk.f # NoFault THEN Flt(nk.f) ELSE kvPos(nd, nk.n)

---------------------------------------------------------------------------
(* Inputs *)

\* node types given to setHeader
TVals == {BNODE_NODE, BNODE_LEAF}

\* key counts given to setHeader: small counts, the largest count whose
\* header, pointers and offsets fit a page, and the smallest counts at which
\* 4 + 10*nkeys and 4 + 8*nkeys pass 2^16
NVals == {0, 1, 2, 409, 6554, 8193}

\* indexes given to the accessors
IdxVals == {0, 1, 2, 408, 8192}

\* indexes given to setPtr
SetIdxVals == {0, 1, 408, 8192}

\* pointers given to setPtr: 0x0807060504030201
PtrVals == {<<513, 1027, 1541, 2055>>}

\* records Init lays out: declared key length, declared value length and the
\* bytes that follow the two length fields.  A well-formed record holds
\* exactly klen + vlen bytes.
WfRecs ==
    { [klen |-> 1, vlen |-> 1, body |-> <<107, 118>>],
      [klen |-> 2, vlen |-> 0, body |-> <<107, 108>>] }

\* records of a damaged page: they declare more bytes than the buffer holds
RawRecs ==
    { [klen |-> 65535, vlen |-> 1, body |-> <<97, 98>>],
      [klen |-> 2, vlen |-> 65524, body |-> <<107, 108>>] }

RecSeqs ==
    UNION {[1..n -> WfRecs] : n \in 0..MaxKeys} \cup {<<r>> : r \in RawRecs}

\* little-endian bytes of a uint16
LE16(v) == <<v % 256, (v \div 256) % 256>>

RECURSIVE EndOf(_, _)
\* offset of the end of record i (1-based) from the start of the records
EndOf(rs, i) ==
    IF i = 0 THEN 0
    ELSE EndOf(rs, i - 1) + 4 + rs[i].klen + rs[i].vlen

RECURSIVE OffsetBytes(_, _)
OffsetBytes(rs, i) ==
    IF i > Len(rs) THEN <<>>
    ELSE LE16(U16(EndOf(rs, i))) \o OffsetBytes(rs, i + 1)

RECURSIVE RecordBytes(_, _)
RecordBytes(rs, i) ==
    IF i > Len(rs) THEN <<>>
    ELSE LE16(rs[i].klen) \o LE16(rs[i].vlen) \o rs[i].body
         \o RecordBytes(rs, i + 1)

\* a node laid out per the page layout, its pointers zero:
\* | type 2B | nkeys 2B | pointers nkeys*8B | offsets nkeys*2B | records |
Encode(t, rs) ==
    LE16(t) \o LE16(Len(rs)) \o [j \in 1..(8 * Len(rs)) |-> 0]
    \o OffsetBytes(rs, 1) \o RecordBytes(rs, 1)

\* buffers too short for a header
TinyBufs == {[j \in 1..k |-> 0] : k \in 0..3}

NoArg == [i |-> 0, t |-> 0, n |-> 0, v |-> <<>>]

---------------------------------------------------------------------------
(* The state machine *)

\* the Go slice holds the laid-out bytes; slack zero bytes of capacity follow
Init ==
    /\ \E rs \in RecSeqs, t \in TVals, tiny \in TinyBufs, short \in BOOLEAN,
          slack \in {0, MaxSlack} :
          LET d == IF short THEN tiny ELSE Encode(t, rs)
          IN  /\ node = [data |-> d \o [j \in 1..slack |-> 0], len |-> Len(d)]
              /\ recs = IF short THEN <<>> ELSE rs
    /\ op = "init"
    /\ arg = NoArg
    /\ ret = Flt(NoFault)

Btype ==
    /\ op' = "btype" /\ arg' = NoArg
    /\ ret' = btype(node)
    /\ UNCHANGED <<node, recs>>

Nkeys ==
    /\ op' = "nkeys" /\ arg' = NoArg
    /\ ret' = nkeys(node)
    /\ UNCHANGED <<node, recs>>

SetHeader ==
    \E t \in TVals, n \in NVals :
        LET r == setHeader(node, t, n)
        IN  /\ op' = "setHeader"
            /\ arg' = [NoArg EXCEPT !.t = t, !.n = n]
            /\ ret' = Flt(r.f)
            /\ node' = [node EXCEPT !.data = r.data]
            /\ UNCHANGED recs

GetPtr ==
    \E i \in IdxVals :
        /\ op' = "getPtr" /\ arg' = [NoArg EXCEPT !.i = i]
        /\ ret' = getPtr(node, i)
        /\ UNCHANGED <<node, recs>>

SetPtr ==
    \E i \in SetIdxVals, v \in PtrVals :
        LET r == setPtr(node, i, v)
        IN  /\ op' = "setPtr"
            /\ arg' = [NoArg EXCEPT !.i = i, !.v = v]
            /\ ret' = Flt(r.f)
            /\ node' = [node EXCEPT !.data = r.data]
            /\ UNCHANGED recs

OffsetPos ==
    \E i \in IdxVals :
        /\ op' = "offsetPos" /\ arg' = [NoArg EXCEPT !.i = i]
        /\ ret' = offsetPos(node, i)
        /\ UNCHANGED <<node, recs>>

GetOffset ==
    \E i \in IdxVals :
        /\ op' = "getOffset" /\ arg' = [NoArg EXCEPT !.i = i]
        /\ ret' = getOffset(node, i)
        /\ UNCHANGED <<node, recs>>

KvPos ==
    \E i \in IdxVals :
        /\ op' = "kvPos" /\ arg' = [NoArg EXCEPT !.i = i]
        /\ ret' = kvPos(node, i)
        /\ UNCHANGED <<node, recs>>

GetKey ==
    \E i \in IdxVals :
        /\ op' = "getKey" /\ arg' = [NoArg EXCEPT !.i = i]
        /\ ret' = getKey(node, i)
        /\ UNCHANGED <<node, recs>>

GetVal ==
    \E i \in IdxVals :
        /\ op' = "getVal" /\ arg' = [NoArg EXCEPT !.i = i]
        /\ ret' = getVal(node, i)
        /\ UNCHANGED <<node, recs>>

Nbytes ==
    /\ op' = "nbytes" /\ arg' = NoArg
    /\ ret' = nbytes(node)
    /\ UNCHANGED <<node, recs>>

Next ==
    \/ Btype \/ Nkeys \/ SetHeader \/ GetPtr \/ SetPtr \/ OffsetPos
    \/ GetOffset \/ KvPos \/ GetKey \/ GetVal \/ Nbytes

Spec == Init /\ [][Next]_vars

---------------------------------------------------------------------------
(* Vocabulary of the properties.  Positions here are plain integers,       *)
(* computed without the codec's operators.                                  *)

\* the header's key count, when it can be read
HasN == nkeys(node).f = NoFault
N == nkeys(node).n

\* the little-endian 16-bit value stored at byte position p (0-based)
Stored(p) == p + 2 <= Len(node.data)
WordAt(p) == node.data[p + 1] + 256 * node.data[p + 2]

\* the bytes at positions [p, p + k)
BytesAt(p, k) == SubSeq(node.data, p + 1, p + k)

\* the stored offset of record i, 0 for i = 0 (plain position 4 + 8N + 2(i-1))
OffStored(i) == i = 0 \/ Stored(4 + 8 * N + 2 * (i - 1))
Off(i) == IF i = 0 THEN 0 ELSE WordAt(4 + 8 * N + 2 * (i - 1))

WellFormed(rs) == \A i \in 1..Len(rs) : Len(rs[i].body) = rs[i].klen + rs[i].vlen

\* the node holds, after its pointers, exactly the offsets and records of rs
LaidOut(rs) ==
    /\ WellFormed(rs)
    /\ nkeys(node) = OkN(Len(rs))
    /\ node.len = Len(Encode(0, rs))
    /\ \A j \in (HEADER + 8 * Len(rs) + 1)..node.len :
          node.data[j] = Encode(0, rs)[j]

KeyOf(r) == SubSeq(r.body, 1, r.klen)
ValOf(r) == SubSeq(r.body, r.klen + 1, r.klen + r.vlen)

---------------------------------------------------------------------------
---------------------------------------------------------------------------
(* C2, as stated: getPtr(i) and setPtr(i, v) fault whenever i >= nkeys(), a *)
(* faulting setPtr changes no byte, and for i < nkeys() neither faults.      *)
C2_AsStated ==
    [][ (op' \in {"getPtr", "setPtr"} /\ nkeys(node').f = NoFault) =>
          /\ arg'.i >= nkeys(node').n => ret'.f # NoFault
          /\ (op' = "setPtr" /\ ret'.f # NoFault) => node' = node
          /\ arg'.i < nkeys(node').n => ret'.f = NoFault ]_vars

(* C2, amended: getPtr(i) and setPtr(i, v) fault whenever i >= nkeys() (or   *)
(* the key count cannot be read); a faulting setPtr changes no byte; for     *)
(* i < nkeys() they fault exactly when the eight bytes at (4 + 8i) mod 2^16  *)
(* do not lie within the slice.                                              *)
C2_PtrFaults ==
    [][ op' \in {"getPtr", "setPtr"} =>
          /\ (nkeys(node').f # NoFault \/ arg'.i >= nkeys(node').n) =>
                ret'.f # NoFault
          /\ (op' = "setPtr" /\ ret'.f # NoFault) => node' = node
          /\ (nkeys(node').f = NoFault /\ arg'.i < nkeys(node').n) =>
                (ret'.f = NoFault <=>
                    ((HEADER + 8 * arg'.i) % U16Mod) + 8 <= node'.len) ]_vars

\* setPtr at the index nkeys() of a one-key node failed its assertion
C2_Witness ==
    /\ op = "setPtr" /\ arg.i = 1 /\ nkeys(node) = OkN(1)
    /\ ret.f = AssertFault

---------------------------------------------------------------------------
(* C3, as stated: with pos = kvPos(i), klen the value at pos and vlen the   *)
(* value at pos+2, getKey(i) returns the bytes at [pos+4, pos+4+klen) and    *)
(* getVal(i) the bytes at [pos+4+klen, pos+4+klen+vlen); both fail when      *)
(* i >= nkeys().                                                             *)
C3_AsStated ==
    (op \in {"getKey", "getVal"}) =>
        /\ (~HasN \/ arg.i >= N) => ret.f # NoFault
        /\ (HasN /\ arg.i < N /\ ret.f = NoFault) =>
              LET pos == kvPos(node, arg.i).n
                  klen == WordAt(pos)
                  vlen == WordAt(pos + 2)
              IN  IF op = "getKey"
                  THEN /\ pos + 4 + klen <= Len(node.data)
                       /\ ret.b = BytesAt(pos + 4, klen)
                  ELSE /\ pos + 4 + klen + vlen <= Len(node.data)
                       /\ ret.b = BytesAt(pos + 4 + klen, vlen)

(* C3, amended: with pos = kvPos(i), klen the value at pos and vlen the     *)
(* value at pos+2, a getKey(i) that returns gives the klen bytes starting at *)
(* (pos+4) mod 2^16 and a getVal(i) that returns gives the vlen bytes        *)
(* starting at (pos+4+klen) mod 2^16; both fail when i >= nkeys().           *)
C3_KeyVal ==
    (op \in {"getKey", "getVal"}) =>
        /\ (~HasN \/ arg.i >= N) => ret.f # NoFault
        /\ (HasN /\ arg.i < N /\ ret.f = NoFault) =>
              LET pos == kvPos(node, arg.i).n
                  klen == WordAt(pos)
                  vlen == WordAt(pos + 2)
                  kat == (pos + 4) % U16Mod
                  vat == (pos + 4 + klen) % U16Mod
              IN  IF op = "getKey"
                  THEN /\ kat + klen <= Len(node.data)
                       /\ ret.b = BytesAt(kat, klen)
                  ELSE /\ vat + vlen <= Len(node.data)
                       /\ ret.b = BytesAt(vat, vlen)

\* the value of the second of two records was read
C3_Witness ==
    /\ op = "getVal" /\ arg.i = 1 /\ nkeys(node) = OkN(2)
    /\ ret = OkB(<<118>>)
    /\ kvPos(node, 1) = OkN(30)

---------------------------------------------------------------------------
---------------------------------------------------------------------------
(* C5, as stated: for i in [0, nkeys()], kvPos(i) equals                    *)
(* 4 + 8*nkeys() + 2*nkeys() + getOffset(i), in particular                   *)
(* kvPos(0) = 4 + 10*nkeys(); kvPos(i) faults for i > nkeys().               *)
C5_AsStated ==
    (op = "kvPos") =>
        /\ (~HasN \/ arg.i > N) => ret.f # NoFault
        /\ (HasN /\ arg.i <= N) =>
              /\ ret.f = getOffset(node, arg.i).f
              /\ ret.f = NoFault =>
                    ret.n = 4 + 8 * N + 2 * N + getOffset(node, arg.i).n
              /\ arg.i = 0 => ret = OkN(4 + 10 * N)

(* C5, amended: for i in [0, nkeys()], kvPos(i) faults exactly when         *)
(* getOffset(i) does and else equals                                         *)
(* (4 + 8*nkeys() + 2*nkeys() + getOffset(i)) mod 2^16, in particular        *)
(* kvPos(0) = (4 + 10*nkeys()) mod 2^16; kvPos(i) faults for i > nkeys().    *)
C5_KvPos ==
    (op = "kvPos") =>
        /\ (~HasN \/ arg.i > N) => ret.f # NoFault
        /\ (HasN /\ arg.i <= N) =>
              /\ ret.f = getOffset(node, arg.i).f
              /\ ret.f = NoFault =>
                    ret.n = (4 + 8 * N + 2 * N + getOffset(node, arg.i).n)
                            % U16Mod
              /\ arg.i = 0 => ret = OkN((4 + 10 * N) % U16Mod)

\* the position just past the second of two records was computed
C5_Witness ==
    /\ op = "kvPos" /\ arg.i = 2 /\ nkeys(node) = OkN(2)
    /\ getOffset(node, 2) = OkN(12)
    /\ ret = OkN(36)

---------------------------------------------------------------------------
\* the stored offsets satisfy offset(i+1) - offset(i) = 4 + keyLen(i) + valLen(i)
OffsetsConsistent ==
    /\ HasN
    /\ 4 + 10 * N <= Len(node.data)
    /\ \A i \in 0..(N - 1) :
          LET pos == 4 + 10 * N + Off(i)
          IN  /\ Stored(pos) /\ Stored(pos + 2)
              /\ Off(i + 1) - Off(i) = 4 + WordAt(pos) + WordAt(pos + 2)

RECURSIVE RecordLengths(_)
\* the sum of the lengths 4 + keyLen(i) + valLen(i) of records 0..k-1
RecordLengths(k) ==
    IF k = 0 THEN 0
    ELSE LET pos == 4 + 10 * N + Off(k - 1)
         IN  RecordLengths(k - 1) + 4 + WordAt(pos) + WordAt(pos + 2)

(* C6, as stated: nbytes() equals kvPos(nkeys()); it is 4 for a node with   *)
(* no keys, and on a node with consistent offsets it is 4 + 10*nkeys() plus  *)
(* the sum of the record lengths.                                            *)
C6_AsStated ==
    (op = "nbytes" /\ HasN) =>
        /\ ret = kvPos(node, N)
        /\ N = 0 => ret = OkN(4)
        /\ (OffsetsConsistent /\ ret.f = NoFault) =>
              ret.n = 4 + 10 * N + RecordLengths(N)

(* C6, amended: nbytes() equals kvPos(nkeys()); it is 4 for a node with no  *)
(* keys, and on a node with consistent offsets it is 4 + 10*nkeys() plus the *)
(* sum of the record lengths, modulo 2^16.                                   *)
C6_Nbytes ==
    (op = "nbytes" /\ HasN) =>
        /\ ret = kvPos(node, N)
        /\ N = 0 => ret = OkN(4)
        /\ (OffsetsConsistent /\ ret.f = NoFault) =>
              ret.n = (4 + 10 * N + RecordLengths(N)) % U16Mod

\* the size of a node of two six-byte records was computed
C6_Witness ==
    /\ op = "nbytes" /\ nkeys(node) = OkN(2) /\ OffsetsConsistent
    /\ RecordLengths(2) = 12
    /\ ret = OkN(36)

---------------------------------------------------------------------------
\* d2 is d1 except at the byte positions [lo, hi)
SameOutside(d1, d2, lo, hi) ==
    /\ Len(d2) = Len(d1)
    /\ \A j \in 1..Len(d1) : (j <= lo \/ j > hi) => d2[j] = d1[j]

Readers ==
    {"btype", "nkeys", "getPtr", "offsetPos", "getOffset", "kvPos", "getKey",
     "getVal", "nbytes"}

KvPlain(k) ==
    /\ (k = 0 \/ 4 + 8 * N + 2 * (k - 1) < U16Mod)
    /\ getOffset(node, k).f = NoFault =>
          4 + 10 * N + getOffset(node, k).n < U16Mod

\* nor does the position of the value that getVal(k) computes
ValPlain(k) ==
    /\ KvPlain(k)
    /\ (kvPos(node, k).f = NoFault /\ Stored(kvPos(node, k).n)) =>
          kvPos(node, k).n + 4 + WordAt(kvPos(node, k).n) < U16Mod

---------------------------------------------------------------------------
(* Positions the last operation computed: <<the uint16 value, the plain     *)
(* integer value>>.                                                          *)

OffPairs(k) ==
    IF HasN /\ 1 <= k /\ k <= N
    THEN {<<offsetPos(node, k).n, 4 + 8 * N + 2 * (k - 1)>>}
    ELSE {}

\* the plain position of record k, from the offset the codec read
PlainKv(k) == 4 + 10 * N + getOffset(node, k).n

KvPairs(k) ==
    IF HasN /\ k <= N /\ getOffset(node, k).f = NoFault
    THEN OffPairs(k) \cup {<<kvPos(node, k).n, PlainKv(k)>>}
    ELSE OffPairs(k)

\* getKey and getVal read the key length at kvPos(k), getVal the value
\* length two bytes on
KlenRead(k) ==
    /\ HasN /\ k < N /\ kvPos(node, k).f = NoFault
    /\ kvPos(node, k).n + 2 <= node.len
VlenRead(k) == KlenRead(k) /\ kvPos(node, k).n + 4 <= node.len
Klen(k) == WordAt(kvPos(node, k).n)
Vlen(k) == WordAt(kvPos(node, k).n + 2)

PosPairs ==
    CASE op \in {"getPtr", "setPtr"} ->
            IF HasN /\ arg.i < N
            THEN {<<ptrPos(arg.i), 4 + 8 * arg.i>>} ELSE {}
      [] op \in {"offsetPos", "getOffset"} -> OffPairs(arg.i)
      [] op = "kvPos" -> KvPairs(arg.i)
      [] op = "nbytes" -> IF HasN THEN KvPairs(N) ELSE {}
      [] op = "getKey" ->
            IF KlenRead(arg.i)
            THEN KvPairs(arg.i)
                 \cup {<<U16(kvPos(node, arg.i).n + 4), PlainKv(arg.i) + 4>>}
            ELSE IF HasN /\ arg.i < N THEN KvPairs(arg.i) ELSE {}
      [] op = "getVal" ->
            IF KlenRead(arg.i)
            THEN KvPairs(arg.i)
                 \cup {<<U16(kvPos(node, arg.i).n + 2), PlainKv(arg.i) + 2>>}
                 \cup (IF VlenRead(arg.i)
                       THEN {<<U16(kvPos(node, arg.i).n + 4 + Klen(arg.i)),
                               PlainKv(arg.i) + 4 + Klen(arg.i)>>}
                       ELSE {})
            ELSE IF HasN /\ arg.i < N THEN KvPairs(arg.i) ELSE {}
      [] OTHER -> {}

\* the encoded size in plain integers, as far as the last operation read it:
\* header, pointers and offsets, the offset of the record, the record
Extent ==
    CASE op \in {"getPtr", "setPtr", "offsetPos"} -> 4 + 10 * N
      [] op \in {"getOffset", "kvPos"} ->
            IF arg.i <= N /\ getOffset(node, arg.i).f = NoFault
            THEN PlainKv(arg.i) ELSE 4 + 10 * N
      [] op = "nbytes" ->
            IF getOffset(node, N).f = NoFault THEN PlainKv(N) ELSE 4 + 10 * N
      [] op \in {"getKey", "getVal"} ->
            IF VlenRead(arg.i)
            THEN PlainKv(arg.i) + 4 + Klen(arg.i) + Vlen(arg.i)
            ELSE IF KlenRead(arg.i) THEN PlainKv(arg.i) + 4 + Klen(arg.i)
            ELSE IF arg.i < N /\ getOffset(node, arg.i).f = NoFault
            THEN PlainKv(arg.i) ELSE 4 + 10 * N
      [] OTHER -> 4 + 10 * N

Wrapped == \E pr \in PosPairs : pr[1] # pr[2]

\* the header's key count is more than a page can hold
NkeysTooBig == 4 + 10 * N > BTREE_PAGE_SIZE

\* a stored offset is more than a page can hold
OffsetTooBig ==
    \E j \in 1..N : Stored(4 + 8 * N + 2 * (j - 1))
                    /\ 4 + 10 * N + Off(j) > BTREE_PAGE_SIZE

\* the key length the operation read is more than a page can hold
KlenTooBig ==
    /\ op \in {"getKey", "getVal"} /\ KlenRead(arg.i)
    /\ PlainKv(arg.i) + 4 + Klen(arg.i) > BTREE_PAGE_SIZE

(* C10, as stated: on a node whose encoded size is at most 4096 every       *)
(* position computed in uint16 equals its plain value and is at most 4096;   *)
(* a position wraps only when the header's nkeys or a stored offset is more  *)
(* than a 4096-byte page can hold.                                           *)
C10_AsStated ==
    HasN =>
        /\ Extent <= BTREE_PAGE_SIZE =>
              \A pr \in PosPairs : pr[1] = pr[2] /\ pr[2] <= BTREE_PAGE_SIZE
        /\ Wrapped => (NkeysTooBig \/ OffsetTooBig)

(* C10, amended: on a node whose encoded size is at most 4096 every         *)
(* position computed in uint16 equals its plain value and is at most 4096;   *)
(* a position wraps only when the header's nkeys, a stored offset or a       *)
(* stored key length is more than a 4096-byte page can hold.                 *)
C10_NoWrap ==
    HasN =>
        /\ Extent <= BTREE_PAGE_SIZE =>
              \A pr \in PosPairs : pr[1] = pr[2] /\ pr[2] <= BTREE_PAGE_SIZE
        /\ Wrapped => (NkeysTooBig \/ OffsetTooBig \/ KlenTooBig)

\* the last pointer of the fullest header a page can hold was addressed
C10_Witness ==
    /\ op = "getPtr" /\ arg.i = 408 /\ nkeys(node) = OkN(409)
    /\ Extent <= BTREE_PAGE_SIZE
    /\ PosPairs = {<<3268, 3268>>}

=============================================================================
